---- MODULE Spec2Model ----
(***************************************************************************)
(* State-machine model of the QuantumDaoGame contract                      *)
(* (src/contracts/quantum-dao/src/lib.rs).                                 *)
(*                                                                         *)
(* Every endpoint runs as one atomic transaction of the host: a failing    *)
(* require! aborts the transaction and the host discards its writes and    *)
(* events.  One action of the model is one transaction; the variable       *)
(* events holds what the last transaction emitted, so a step that leaves   *)
(* the block height alone and emits nothing is a call that failed.  Which  *)
(* failure a call meets is given by the *_result operators, one per        *)
(* endpoint, that the actions branch on.                                   *)
(*                                                                         *)
(* Numbers.  Stakes are counted in a coarse denomination of which UNIT     *)
(* make one EGLD (the divisor 10^18 of line 92), so that floor(stake/UNIT) *)
(* is computed exactly as the code computes it on whole and fractional     *)
(* EGLD amounts.  Tallies are BigUint (unbounded naturals).  Scores, block *)
(* heights and the proposal counter are u64/u64/u32 in the code; every     *)
(* value reached within the bounds below is far under 2^32, so their       *)
(* additions are exact here and wrap-around is outside the model.          *)
(* Titles, descriptions and the reward token id are opaque data that no    *)
(* endpoint reads back; they are left out.                                 *)
(***************************************************************************)
EXTENDS Integers, Sequences, FiniteSets, TLC

\* ---------------------------------------------------------------- bounds
MaxBlock == 2          \* the block height stops advancing here
MaxCalls == 3          \* state-changing transactions explored per behaviour
MaxProposals == 2      \* proposals created per behaviour
MaxStake == 2          \* attached payments range over 0..MaxStake

Address == {"alice", "bob"}
\* init is called at block .start with game_duration_blocks = .duration
GameConfigs == {[start |-> 0, duration |-> 1], [start |-> 1, duration |-> 0]}
VotingDurations == {0, 1}
Payments == 0..MaxStake

\* ------------------------------------------------------- program constants
UNIT == 2              \* BigUint::from(1_000_000_000_000_000_000u64), scaled
U64_MAX == 2147483647  \* stands for u64::MAX: the largest number to_u64 accepts
CREATE_POINTS == 10
VOTE_MULTIPLIER == 2
EXECUTE_POINTS == 50
FIRST_PROPOSAL_ID == 1

\* Larger stakes: none, and s whole units with or without a remainder
\* (one unit and a rest, two units, ...).
StakePayments == {0} \cup {(s * UNIT) + (s % UNIT) : s \in 1..MaxStake}

VARIABLES
    block,                 \* blockchain().get_block_nonce()
    game_duration_blocks,  \* storage: game_duration_blocks
    game_start_block,      \* storage: game_start_block
    current_proposal_id,   \* storage: current_proposal_id
    proposals,             \* storage: proposals(id), a function on the stored ids
    dao_scores,            \* storage: dao_scores(player), 0 when empty
    user_votes,            \* storage: user_votes(id, voter), on the stored pairs
    nft_claimed,           \* storage: nft_claimed(player), the set of set entries
    events                 \* the events of the last transaction, if it committed

store == <<game_duration_blocks, game_start_block, current_proposal_id,
           proposals, dao_scores, user_votes, nft_claimed>>
vars == <<block, game_duration_blocks, game_start_block, current_proposal_id,
          proposals, dao_scores, user_votes, nft_claimed, events>>

\* ------------------------------------------------------------ pure helpers
RECURSIVE SumOver(_, _)
SumOver(S, f) ==
    IF S = {} THEN 0
    ELSE LET x == CHOOSE y \in S : TRUE IN f[x] + SumOver(S \ {x}, f)

\* Mutant: the game is over one block early (strict comparison).
is_game_active_strict ==
    LET current_block == block
        game_end == game_start_block + game_duration_blocks
    IN  current_block < game_end

is_game_active ==
    LET current_block == block
        game_end == game_start_block + game_duration_blocks
    IN  current_block <= game_end

\* Mutant: the new points replace the stored score instead of adding to it.
add_dao_points_overwrite(scores, player, points) ==
    [scores EXCEPT ![player] = points]

add_dao_points(scores, player, points) ==
    [scores EXCEPT ![player] = @ + points]

\* Mutant: the eligibility check rejects everybody.
is_eligible_for_reward_never(player) == FALSE

\* fn is_eligible_for_reward(&self, _player) -> bool { true }
is_eligible_for_reward(player) == TRUE

\* Mutant: a quotient of zero falls back to one point as well.
dao_points_min_one(payment) ==
    LET quotient == payment \div UNIT
    IN  IF quotient <= U64_MAX /\ quotient > 0 THEN quotient ELSE 1

\* Mutant: one point for any stake of a unit or more.
dao_points_flat(payment) == IF payment \div UNIT > 0 THEN 1 ELSE 0

\* (payment / 10^18).to_u64().unwrap_or(1)
dao_points(payment) ==
    LET quotient == payment \div UNIT
    IN  IF quotient <= U64_MAX THEN quotient ELSE 1

\* Mutant: the voter gets the quotient, not twice the quotient.
vote_points_no_multiplier(payment) == dao_points(payment)

\* self.add_dao_points(&caller, dao_points * 2)
vote_points(payment) == dao_points(payment) * VOTE_MULTIPLIER

\* Mutant: the counter is stored back without the increment.
next_proposal_id_stuck(proposal_id) == proposal_id

next_proposal_id(proposal_id) == proposal_id + 1

\* Mutant: the window opens one block after the creation.
new_proposal_starting_later(proposal_id, caller, current_block, voting_duration_blocks) ==
    [id |-> proposal_id, creator |-> caller, votes_for |-> 0, votes_against |-> 0,
     start_block |-> current_block + 1,
     end_block |-> current_block + 1 + voting_duration_blocks,
     executed |-> FALSE]

\* Mutant: the window's end is the duration alone, not current block + duration.
new_proposal_end_is_duration(proposal_id, caller, current_block, voting_duration_blocks) ==
    [id |-> proposal_id, creator |-> caller, votes_for |-> 0, votes_against |-> 0,
     start_block |-> current_block,
     end_block |-> voting_duration_blocks,
     executed |-> FALSE]

new_proposal(proposal_id, caller, current_block, voting_duration_blocks) ==
    [id |-> proposal_id, creator |-> caller, votes_for |-> 0, votes_against |-> 0,
     start_block |-> current_block,
     end_block |-> current_block + voting_duration_blocks,
     executed |-> FALSE]

\* Every state-changing transaction adds one proposal, one vote record, one
\* executed flag or one claim: their number is the number of such transactions.
committed ==
    Cardinality(DOMAIN proposals) + Cardinality(DOMAIN user_votes)
    + Cardinality({id \in DOMAIN proposals : proposals[id].executed})
    + Cardinality(nft_claimed)

\* The proposal ids a caller tries: the stored ones and the next, unused one.
ProposalIdArgs == 1..current_proposal_id

\* ------------------------------------------------------------------- init
Init ==
    /\ \E config \in GameConfigs :
          /\ block = config.start
          /\ game_duration_blocks = config.duration
          /\ game_start_block = block
    /\ current_proposal_id = FIRST_PROPOSAL_ID
    /\ proposals = <<>>
    /\ dao_scores = [a \in Address |-> 0]
    /\ user_votes = <<>>
    /\ nft_claimed = {}
    /\ events = <<>>

\* The host advances the block height between transactions.
Tick ==
    /\ block < MaxBlock
    /\ block' = block + 1
    /\ events' = <<>>
    /\ UNCHANGED store

\* Mutant: a failing call has bumped the proposal counter before its check.
Failed_keeping_writes ==
    /\ events' = <<>>
    /\ current_proposal_id' = current_proposal_id + 1
    /\ UNCHANGED <<block, game_duration_blocks, game_start_block, proposals,
                   dao_scores, user_votes, nft_claimed>>

\* A failing require! ends the transaction: nothing is written, nothing emitted.
Failed ==
    /\ events' = <<>>
    /\ UNCHANGED <<block, store>>

\* ----------------------------------------------------------------- events
proposal_created_event(proposal_id, creator) ==
    [event |-> "proposal_created", proposal_id |-> proposal_id, creator |-> creator]

vote_cast_event(proposal_id, voter, vote_for, stake_amount) ==
    [event |-> "vote_cast", proposal_id |-> proposal_id, voter |-> voter,
     vote_for |-> vote_for, stake_amount |-> stake_amount]

proposal_executed_event(proposal_id, passed) ==
    [event |-> "proposal_executed", proposal_id |-> proposal_id, passed |-> passed]

nft_claimed_event(player, score) ==
    [event |-> "nft_claimed", player |-> player, score |-> score]

\* ------------------------------------------------------- createProposal
\* require_game_active(): "Game has ended"
create_proposal_result ==
    IF ~is_game_active THEN "GameEnded" ELSE "Ok"

create_proposal(caller, voting_duration_blocks) ==
    LET result == create_proposal_result
        proposal_id == current_proposal_id
        current_block == block
        proposal == new_proposal(proposal_id, caller, current_block,
                                 voting_duration_blocks)
    IN  IF result # "Ok"
        THEN Failed
        ELSE /\ proposals' = (proposal_id :> proposal) @@ proposals
             /\ current_proposal_id' = next_proposal_id(proposal_id)
             /\ dao_scores' = add_dao_points(dao_scores, caller, CREATE_POINTS)
             /\ events' = <<proposal_created_event(proposal_id, caller)>>
             /\ UNCHANGED <<block, game_duration_blocks, game_start_block,
                            user_votes, nft_claimed>>

\* ------------------------------------------------------------------ vote
\* Mutant: the chain without its last check, the double-vote guard.
vote_result_no_double_vote_guard(caller, proposal_id, payment) ==
    IF ~is_game_active THEN "GameEnded"
    ELSE IF ~(payment > 0) THEN "ZeroStake"
    ELSE IF proposal_id \notin DOMAIN proposals THEN "ProposalNotFound"
    ELSE IF ~(block >= proposals[proposal_id].start_block) THEN "VotingNotStarted"
    ELSE IF ~(block <= proposals[proposal_id].end_block) THEN "VotingEnded"
    ELSE "Ok"

\* Mutant: the stake is checked after the proposal lookup.
vote_result_stake_checked_late(caller, proposal_id, payment) ==
    IF ~is_game_active THEN "GameEnded"
    ELSE IF proposal_id \notin DOMAIN proposals THEN "ProposalNotFound"
    ELSE IF ~(payment > 0) THEN "ZeroStake"
    ELSE IF ~(block >= proposals[proposal_id].start_block) THEN "VotingNotStarted"
    ELSE IF ~(block <= proposals[proposal_id].end_block) THEN "VotingEnded"
    ELSE IF <<proposal_id, caller>> \in DOMAIN user_votes THEN "AlreadyVoted"
    ELSE "Ok"

\* Mutant: the end of the voting window is not checked.
vote_result_no_end_check(caller, proposal_id, payment) ==
    IF ~is_game_active THEN "GameEnded"
    ELSE IF ~(payment > 0) THEN "ZeroStake"
    ELSE IF proposal_id \notin DOMAIN proposals THEN "ProposalNotFound"
    ELSE IF ~(block >= proposals[proposal_id].start_block) THEN "VotingNotStarted"
    ELSE IF <<proposal_id, caller>> \in DOMAIN user_votes THEN "AlreadyVoted"
    ELSE "Ok"

\* The require! chain of vote, first failure wins:
\*   "Game has ended", "Must stake EGLD to vote", "Proposal does not exist",
\*   "Voting not started", "Voting ended", "Already voted"
vote_result(caller, proposal_id, payment) ==
    IF ~is_game_active THEN "GameEnded"
    ELSE IF ~(payment > 0) THEN "ZeroStake"
    ELSE IF proposal_id \notin DOMAIN proposals THEN "ProposalNotFound"
    ELSE IF ~(block >= proposals[proposal_id].start_block) THEN "VotingNotStarted"
    ELSE IF ~(block <= proposals[proposal_id].end_block) THEN "VotingEnded"
    ELSE IF <<proposal_id, caller>> \in DOMAIN user_votes THEN "AlreadyVoted"
    ELSE "Ok"

new_vote(caller, proposal_id, vote_for, payment, current_block) ==
    [voter |-> caller, proposal_id |-> proposal_id, vote_for |-> vote_for,
     stake_amount |-> payment, block_number |-> current_block]

\* Mutant: every stake is added to votes_for.
count_vote_always_for(proposal, vote_for, payment) ==
    [proposal EXCEPT !.votes_for = @ + payment]

\* if vote_for { votes_for += payment } else { votes_against += payment }
count_vote(proposal, vote_for, payment) ==
    IF vote_for
    THEN [proposal EXCEPT !.votes_for = @ + payment]
    ELSE [proposal EXCEPT !.votes_against = @ + payment]

vote(caller, proposal_id, vote_for, payment) ==
    LET result == vote_result(caller, proposal_id, payment)
    IN  IF result # "Ok"
        THEN Failed
        ELSE LET proposal == proposals[proposal_id]
                 current_block == block
                 v == new_vote(caller, proposal_id, vote_for, payment, current_block)
             IN  /\ user_votes' = (<<proposal_id, caller>> :> v) @@ user_votes
                 /\ proposals' = [proposals EXCEPT ![proposal_id] =
                                      count_vote(proposal, vote_for, payment)]
                 /\ dao_scores' = add_dao_points(dao_scores, caller,
                                                 vote_points(payment))
                 /\ events' = <<vote_cast_event(proposal_id, caller,
                                                vote_for, payment)>>
                 /\ UNCHANGED <<block, game_duration_blocks, game_start_block,
                                current_proposal_id, nft_claimed>>

\* ------------------------------------------------------- executeProposal
\* Mutant: the chain without the check of the executed flag.
execute_proposal_result_no_executed_guard(proposal_id) ==
    IF proposal_id \notin DOMAIN proposals THEN "ProposalNotFound"
    ELSE IF ~(block > proposals[proposal_id].end_block) THEN "VotingStillActive"
    ELSE "Ok"

\* Mutant: execution is refused once the game has ended.
execute_proposal_result_gated(proposal_id) ==
    IF ~is_game_active THEN "GameEnded"
    ELSE IF proposal_id \notin DOMAIN proposals THEN "ProposalNotFound"
    ELSE IF ~(block > proposals[proposal_id].end_block) THEN "VotingStillActive"
    ELSE IF proposals[proposal_id].executed THEN "AlreadyExecuted"
    ELSE "Ok"

\* "Proposal does not exist", "Voting still active", "Proposal already executed"
execute_proposal_result(proposal_id) ==
    IF proposal_id \notin DOMAIN proposals THEN "ProposalNotFound"
    ELSE IF ~(block > proposals[proposal_id].end_block) THEN "VotingStillActive"
    ELSE IF proposals[proposal_id].executed THEN "AlreadyExecuted"
    ELSE "Ok"

\* Mutant: a tie passes.
proposal_passed_on_tie(proposal) == proposal.votes_for >= proposal.votes_against

\* if proposal.votes_for > proposal.votes_against
proposal_passed(proposal) == proposal.votes_for > proposal.votes_against

mark_executed(proposal) == [proposal EXCEPT !.executed = TRUE]

\* Mutant: a proposal that did not pass is marked executed as well.
execute_proposal_closing_failed(proposal_id) ==
    LET result == execute_proposal_result(proposal_id)
    IN  IF result # "Ok"
        THEN Failed
        ELSE LET proposal == proposals[proposal_id]
             IN  IF proposal_passed(proposal)
                 THEN /\ proposals' = [proposals EXCEPT ![proposal_id] =
                                           mark_executed(proposal)]
                      /\ dao_scores' = add_dao_points(dao_scores, proposal.creator,
                                                      EXECUTE_POINTS)
                      /\ events' = <<proposal_executed_event(proposal_id, TRUE)>>
                      /\ UNCHANGED <<block, game_duration_blocks, game_start_block,
                                     current_proposal_id, user_votes, nft_claimed>>
                 ELSE /\ proposals' = [proposals EXCEPT ![proposal_id] =
                                           mark_executed(proposal)]
                      /\ events' = <<proposal_executed_event(proposal_id, FALSE)>>
                      /\ UNCHANGED <<block, game_duration_blocks, game_start_block,
                                     current_proposal_id, dao_scores, user_votes,
                                     nft_claimed>>

\* The endpoint never reads its caller: anyone may call it.
execute_proposal(proposal_id) ==
    LET result == execute_proposal_result(proposal_id)
    IN  IF result # "Ok"
        THEN Failed
        ELSE LET proposal == proposals[proposal_id]
             IN  IF proposal_passed(proposal)
                 THEN /\ proposals' = [proposals EXCEPT ![proposal_id] =
                                           mark_executed(proposal)]
                      /\ dao_scores' = add_dao_points(dao_scores, proposal.creator,
                                                      EXECUTE_POINTS)
                      /\ events' = <<proposal_executed_event(proposal_id, TRUE)>>
                      /\ UNCHANGED <<block, game_duration_blocks, game_start_block,
                                     current_proposal_id, user_votes, nft_claimed>>
                 ELSE /\ events' = <<proposal_executed_event(proposal_id, FALSE)>>
                      /\ UNCHANGED <<block, store>>

\* ----------------------------------------------------------- claimReward
\* Mutant: the chain without the check of the claimed entry.
claim_nft_reward_result_no_claimed_guard(caller) ==
    IF is_game_active THEN "GameStillActive"
    ELSE IF ~(dao_scores[caller] > 0) THEN "NoScore"
    ELSE IF ~is_eligible_for_reward(caller) THEN "NotEligible"
    ELSE "Ok"

\* "Game is still active", "NFT already claimed", "No DAO score recorded",
\* "Not eligible for reward"
claim_nft_reward_result(caller) ==
    IF is_game_active THEN "GameStillActive"
    ELSE IF caller \in nft_claimed THEN "AlreadyClaimed"
    ELSE IF ~(dao_scores[caller] > 0) THEN "NoScore"
    ELSE IF ~is_eligible_for_reward(caller) THEN "NotEligible"
    ELSE "Ok"

claim_nft_reward(caller) ==
    LET result == claim_nft_reward_result(caller)
        player_score == dao_scores[caller]
    IN  IF result # "Ok"
        THEN Failed
        ELSE /\ nft_claimed' = nft_claimed \cup {caller}
             /\ events' = <<nft_claimed_event(caller, player_score)>>
             /\ UNCHANGED <<block, game_duration_blocks, game_start_block,
                            current_proposal_id, proposals, dao_scores, user_votes>>

\* ------------------------------------------------------------------ next
CreateProposal ==
    \E caller \in Address, d \in VotingDurations : create_proposal(caller, d)

\* The sides a call is explored with: a refused call reads no side, so one
\* side stands for both.
VoteSides(caller, proposal_id, payment) ==
    IF vote_result(caller, proposal_id, payment) = "Ok" THEN BOOLEAN ELSE {TRUE}

\* The stakes a call is explored with: when the call is refused whatever it
\* stakes, no stake and the largest stake stand for all.
StakesTried(stakes, caller, proposal_id) ==
    IF \E payment \in stakes : vote_result(caller, proposal_id, payment) = "Ok"
    THEN stakes
    ELSE {payment \in stakes : payment = 0 \/ \A other \in stakes : other <= payment}

Vote ==
    \E caller \in Address, pid \in ProposalIdArgs :
        \E payment \in StakesTried(Payments, caller, pid) :
            \E vote_for \in VoteSides(caller, pid, payment) :
                vote(caller, pid, vote_for, payment)

ExecuteProposal ==
    \E pid \in ProposalIdArgs : execute_proposal(pid)

ClaimReward ==
    \E caller \in Address : claim_nft_reward(caller)

\* The behaviours explored: at most MaxCalls state-changing transactions, of
\* which at most MaxProposals create a proposal. A call that writes nothing
\* (a refused call, an execution that does not pass) is always explored.
Quiet == UNCHANGED store
WithinCalls == committed < MaxCalls
WithinProposals == Cardinality(DOMAIN proposals) < MaxProposals

Next ==
    \/ Tick
    \/ CreateProposal /\ (Quiet \/ (WithinCalls /\ WithinProposals))
    \/ Vote /\ (Quiet \/ WithinCalls)
    \/ ExecuteProposal /\ (Quiet \/ WithinCalls)
    \/ ClaimReward /\ (Quiet \/ WithinCalls)

Spec == Init /\ [][Next]_vars

\* The same behaviours with votes that stake whole units.
VoteStakes ==
    \E caller \in Address, pid \in ProposalIdArgs :
        \E payment \in StakesTried(StakePayments, caller, pid) :
            \E vote_for \in VoteSides(caller, pid, payment) :
                vote(caller, pid, vote_for, payment)

NextStakes ==
    \/ Tick
    \/ CreateProposal /\ (Quiet \/ (WithinCalls /\ WithinProposals))
    \/ VoteStakes /\ (Quiet \/ WithinCalls)
    \/ ExecuteProposal /\ (Quiet \/ WithinCalls)
    \/ ClaimReward /\ (Quiet \/ WithinCalls)

SpecStakes == Init /\ [][NextStakes]_vars

\* The behaviours of a single proposal, explored one transaction deeper.
WithinCallsOne == committed < MaxCalls + 1
NoProposal == DOMAIN proposals = {}

NextOne ==
    \/ Tick
    \/ CreateProposal /\ (Quiet \/ (WithinCallsOne /\ NoProposal))
    \/ Vote /\ (Quiet \/ WithinCallsOne)
    \/ ExecuteProposal /\ (Quiet \/ WithinCallsOne)
    \/ ClaimReward /\ (Quiet \/ WithinCallsOne)

SpecOne == Init /\ [][NextOne]_vars

\* ======================================================================
\* Properties
\* ======================================================================

\* What a step did, read off the two states it joins.
EmittedKind == IF events' = <<>> THEN "none" ELSE events'[1].event
CreatedIds == DOMAIN proposals' \ DOMAIN proposals
NewVoteKeys == DOMAIN user_votes' \ DOMAIN user_votes
NewClaimers == nft_claimed' \ nft_claimed
game_end == game_start_block + game_duration_blocks

\* The stored Vote records of a proposal, and their stakes per side.
VoteKeysOf(proposal_id, side) ==
    {k \in DOMAIN user_votes :
        k[1] = proposal_id /\ user_votes[k].vote_for = side}
StakeOf == [k \in DOMAIN user_votes |-> user_votes[k].stake_amount]
StakeSum(proposal_id, side) == SumOver(VoteKeysOf(proposal_id, side), StakeOf)

\* ---------------------------------------------------------------- C1
C1_Ids ==
    /\ DOMAIN proposals = 1..(current_proposal_id - 1)
    /\ \A id \in DOMAIN proposals : proposals[id].id = id

C1_Step ==
    /\ current_proposal_id' \in {current_proposal_id, current_proposal_id + 1}
    /\ \A id \in DOMAIN proposals :
          /\ id \in DOMAIN proposals'
          /\ proposals'[id].creator = proposals[id].creator
          /\ proposals'[id].start_block = proposals[id].start_block
          /\ proposals'[id].end_block = proposals[id].end_block
    /\ (current_proposal_id' # current_proposal_id \/ CreatedIds # {}
        \/ (EmittedKind = "proposal_created" /\ events' # events))
       => LET k == Cardinality(DOMAIN proposals) + 1
          IN  /\ CreatedIds = {k}
              /\ current_proposal_id = k
              /\ current_proposal_id' = k + 1
              /\ proposals'[k].id = k
              /\ events' = <<proposal_created_event(k, proposals'[k].creator)>>

\* C1: the k-th successful create_proposal stores its proposal under id k
\* (ids are 1, 2, 3, ... in call order), the counter grows by exactly one per
\* successful create and by nothing else, and no later step removes a stored
\* proposal or overwrites its id, creator or voting window.
C1_SequentialIds == [](C1_Ids) /\ [][C1_Step]_vars

C1_Witness ==
    /\ current_proposal_id = 3
    /\ DOMAIN proposals = {1, 2}
    /\ proposals[1].creator # proposals[2].creator
    /\ events = <<proposal_created_event(2, proposals[2].creator)>>

\* ---------------------------------------------------------------- C2
\* C2 as claimed: once a vote by v on p is stored, every further vote call by
\* v on p fails with AlreadyVoted, whatever its stake and the block height.
C2_AlwaysAlreadyVoted ==
    \A k \in DOMAIN user_votes : \A payment \in Payments :
        vote_result(k[2], k[1], payment) = "AlreadyVoted"

C2_Later ==
    \A k \in DOMAIN user_votes : \A payment \in Payments :
        LET result == vote_result(k[2], k[1], payment)
            passes_earlier_checks ==
                /\ block <= game_end
                /\ payment > 0
                /\ block <= proposals[k[1]].end_block
        IN  /\ result \in {"GameEnded", "ZeroStake", "VotingEnded", "AlreadyVoted"}
            /\ result = "AlreadyVoted" <=> passes_earlier_checks

C2_Step ==
    /\ \A k \in DOMAIN user_votes :
          k \in DOMAIN user_votes' /\ user_votes'[k] = user_votes[k]
    /\ (EmittedKind = "vote_cast" /\ events' # events)
       => /\ NewVoteKeys = {<<events'[1].proposal_id, events'[1].voter>>}
          /\ Cardinality(DOMAIN user_votes') = Cardinality(DOMAIN user_votes) + 1

\* C2 (amended): at most one vote by v on p is ever accepted (an accepted vote
\* adds a record under a pair that had none, and records never change); every
\* later vote call by v on p fails, with AlreadyVoted exactly when it passes
\* the earlier checks (game active, stake > 0, block <= end_block) and with
\* GameEnded, ZeroStake or VotingEnded otherwise.
C2_AtMostOneVote == [](C2_Later) /\ [][C2_Step]_vars

C2_Witness ==
    \E k \in DOMAIN user_votes :
        /\ vote_result(k[2], k[1], 1) = "AlreadyVoted"
        /\ vote_result(k[2], k[1], 0) = "ZeroStake"
        /\ events = <<>>

\* ---------------------------------------------------------------- C3
\* C3: for every stored proposal, votes_for is the sum of the stakes of its
\* Vote records with vote_for = TRUE and votes_against the sum of those with
\* vote_for = FALSE (so their total is the sum over all its records).
C3_TallyIsStakeSum ==
    \A id \in DOMAIN proposals :
        /\ proposals[id].votes_for = StakeSum(id, TRUE)
        /\ proposals[id].votes_against = StakeSum(id, FALSE)

C3_Witness ==
    \E id \in DOMAIN proposals :
        /\ VoteKeysOf(id, TRUE) # {}
        /\ VoteKeysOf(id, FALSE) # {}
        /\ proposals[id].votes_for # proposals[id].votes_against

\* ---------------------------------------------------------------- C4
C4_Executed ==
    \A id \in DOMAIN proposals :
        proposals[id].executed => execute_proposal_result(id) = "AlreadyExecuted"

Flipped == {id \in DOMAIN proposals :
               ~proposals[id].executed /\ proposals'[id].executed}

C4_Step ==
    /\ \A id \in DOMAIN proposals :
          proposals[id].executed => proposals'[id].executed
    /\ Cardinality(Flipped) <= 1
    /\ (\/ (EmittedKind = "proposal_executed" /\ events'[1].passed /\ events' # events)
        \/ \E a \in Address : dao_scores'[a] >= dao_scores[a] + EXECUTE_POINTS)
       => Flipped = {events'[1].proposal_id}

\* C4: executed never goes back from TRUE to FALSE, so it flips at most once
\* per proposal; execute_proposal on a proposal whose flag is TRUE fails with
\* AlreadyExecuted, and the bonus (and the passed = TRUE event) is given only
\* by a step that flips the flag of that proposal.
C4_ExecutedOnce == [](C4_Executed) /\ [][C4_Step]_vars

C4_Witness ==
    \E id \in DOMAIN proposals :
        /\ proposals[id].executed
        /\ execute_proposal_result(id) = "AlreadyExecuted"
        /\ dao_scores[proposals[id].creator] >= CREATE_POINTS + EXECUTE_POINTS
        /\ events = <<>>

\* ---------------------------------------------------------------- C5
\* C5: no step of any operation, successful or failing, lowers the stored
\* score of any address.
C5_ScoreNeverDecreases ==
    [][\A a \in Address : dao_scores'[a] >= dao_scores[a]]_vars

C5_Witness ==
    \E a \in Address, k \in DOMAIN user_votes :
        /\ k[2] = a
        /\ proposals[k[1]].creator = a
        /\ dao_scores[a] > CREATE_POINTS

\* ---------------------------------------------------------------- C6
C6_Claimed ==
    \A a \in nft_claimed : claim_nft_reward_result(a) = "AlreadyClaimed"

C6_Step ==
    /\ nft_claimed \subseteq nft_claimed'
    /\ Cardinality(NewClaimers) <= 1
    /\ (EmittedKind = "nft_claimed" /\ events' # events)
       => NewClaimers = {events'[1].player}

\* C6: a successful claim_reward adds an address that was not in the claimed
\* set, no step ever removes an address from it, and every claim_reward by
\* an address in the set fails with AlreadyClaimed: one success per address.
C6_ClaimOnce == [](C6_Claimed) /\ [][C6_Step]_vars

C6_Witness ==
    \E a \in nft_claimed :
        /\ claim_nft_reward_result(a) = "AlreadyClaimed"
        /\ dao_scores[a] > 0
        /\ events = <<>>

\* ---------------------------------------------------------------- C7
SomeCreateOrVoteSucceeds ==
    \/ create_proposal_result = "Ok"
    \/ \E v \in Address, id \in ProposalIdArgs, payment \in Payments :
          vote_result(v, id, payment) = "Ok"

C7_State ==
    /\ block <= game_end
       => \A a \in Address : claim_nft_reward_result(a) = "GameStillActive"
    /\ nft_claimed # {} => block > game_end
    /\ ~(SomeCreateOrVoteSucceeds
         /\ \E a \in Address : claim_nft_reward_result(a) = "Ok")

C7_Step ==
    /\ block <= game_end
       => /\ nft_claimed' = nft_claimed
          /\ EmittedKind # "nft_claimed"
    /\ NewClaimers # {} => block > game_end /\ block' = block

\* C7: at a block height <= start_block + duration_blocks claim_reward fails
\* with GameStillActive for every caller and no step taken there changes the
\* claimed set or emits NftClaimed; every address enters the claimed set at a
\* block > start_block + duration_blocks; and in no state do claim_reward and
\* create_proposal (or vote) both succeed.
C7_ClaimOnlyAfterGame == [](C7_State) /\ [][C7_Step]_vars

C7_Witness ==
    /\ block = game_end
    /\ \E a \in Address :
          /\ dao_scores[a] > 0
          /\ claim_nft_reward_result(a) = "GameStillActive"
    /\ game_start_block > 0
    /\ events = <<>>

C9_AllOrNothing ==
    [][/\ (block' = block /\ events' = <<>>) => UNCHANGED store
       /\ store' # store => Len(events') = 1 /\ block' = block]_vars

C9_Witness ==
    /\ events = <<>>
    /\ \E k \in DOMAIN user_votes :
          /\ user_votes[k].block_number = block
          /\ vote_result(k[2], k[1], 1) = "AlreadyVoted"
    /\ \E id \in DOMAIN proposals :
          execute_proposal_result(id) = "VotingStillActive"

\* --------------------------------------------------------------- C10
\* C10: an execute_proposal call that passes its preconditions (proposal
\* stored, block > end_block, not executed) reports passed = TRUE exactly when
\* votes_for > votes_against (a tie, 0 = 0 included, does not pass); on pass
\* it sets executed, adds exactly 50 to the creator's score, changes nothing
\* else in the store and emits ProposalExecuted(passed = TRUE).
C10_ExecuteRule ==
    [][(EmittedKind = "proposal_executed" /\ events' # events)
       => LET id == events'[1].proposal_id
              passed == events'[1].passed
          IN  /\ id \in DOMAIN proposals
              /\ block > proposals[id].end_block
              /\ ~proposals[id].executed
              /\ passed <=> proposals[id].votes_for > proposals[id].votes_against
              /\ passed =>
                   /\ proposals' = [proposals EXCEPT ![id].executed = TRUE]
                   /\ dao_scores' = [dao_scores EXCEPT
                                        ![proposals[id].creator] = @ + 50]
                   /\ UNCHANGED <<block, game_duration_blocks, game_start_block,
                                  current_proposal_id, user_votes, nft_claimed>>
              /\ ~passed => ~proposals'[id].executed]_vars

C10_Witness ==
    \E id \in DOMAIN proposals :
        /\ events = <<proposal_executed_event(id, TRUE)>>
        /\ proposals[id].executed
        /\ proposals[id].votes_for > proposals[id].votes_against
        /\ dao_scores[proposals[id].creator] >= CREATE_POINTS + EXECUTE_POINTS

\* ---------------------------------------------------------------- C11
\* The preconditions of vote a call violates, each stated on its own.
C11_Violated(caller, proposal_id, payment) ==
    LET known == proposal_id \in DOMAIN proposals
    IN  [GameEnded        |-> block > game_end,
         ZeroStake        |-> payment = 0,
         ProposalNotFound |-> ~known,
         VotingNotStarted |-> known /\ block < proposals[proposal_id].start_block,
         VotingEnded      |-> known /\ block > proposals[proposal_id].end_block,
         AlreadyVoted     |-> <<proposal_id, caller>> \in DOMAIN user_votes]

C11_Order ==
    <<"GameEnded", "ZeroStake", "ProposalNotFound", "VotingNotStarted",
      "VotingEnded", "AlreadyVoted">>

\* The earliest violated precondition in C11_Order, "Ok" when none is.
C11_Earliest(caller, proposal_id, payment) ==
    LET violated == C11_Violated(caller, proposal_id, payment)
        failing == {i \in DOMAIN C11_Order : violated[C11_Order[i]]}
    IN  IF failing = {} THEN "Ok"
        ELSE C11_Order[CHOOSE i \in failing : \A j \in failing : i <= j]

C11_VoteArgs == 0..(MaxProposals + 1)

\* C11: vote checks its preconditions in the order GameEnded, ZeroStake,
\* ProposalNotFound, VotingNotStarted, VotingEnded, AlreadyVoted and reports
\* the first one that fails: a call that violates several of them fails with
\* the earliest in that order, and a call that violates none is accepted.
C11_FirstFailureWins ==
    \A caller \in Address, proposal_id \in C11_VoteArgs, payment \in Payments :
        vote_result(caller, proposal_id, payment)
            = C11_Earliest(caller, proposal_id, payment)

\* A vote call that violates four preconditions at once (game over, no stake,
\* voting closed, already voted) and is answered with the earliest; with a
\* stake it violates three and the answer is the same.
C11_Witness ==
    \E k \in DOMAIN user_votes :
        LET violated == C11_Violated(k[2], k[1], 0)
        IN  /\ violated.GameEnded /\ violated.ZeroStake
            /\ violated.VotingEnded /\ violated.AlreadyVoted
            /\ vote_result(k[2], k[1], 0) = "GameEnded"
            /\ vote_result(k[2], k[1], 1) = "GameEnded"

\* ---------------------------------------------------------------- C12
\* Every stored Vote record was cast inside its proposal's voting window,
\* while the game was active, with a positive stake.
C12_RecordsInWindow ==
    \A k \in DOMAIN user_votes :
        LET v == user_votes[k]
        IN  /\ v.proposal_id \in DOMAIN proposals
            /\ proposals[v.proposal_id].start_block <= v.block_number
            /\ v.block_number <= proposals[v.proposal_id].end_block
            /\ v.block_number <= game_end
            /\ v.stake_amount > 0

\* The existing proposals whose voting window is over while the game is on.
C12_ClosedIds ==
    {id \in DOMAIN proposals :
        block > proposals[id].end_block /\ block <= game_end}

C13_Created(caller, voting_duration_blocks) ==
    /\ CreatedIds = {current_proposal_id}
    /\ proposals'[current_proposal_id].creator = caller
    /\ proposals'[current_proposal_id].start_block = block
    /\ proposals'[current_proposal_id].end_block = block + voting_duration_blocks
    /\ proposals'[current_proposal_id].votes_for = 0
    /\ proposals'[current_proposal_id].votes_against = 0
    /\ proposals'[current_proposal_id].executed = FALSE
    /\ \A id \in DOMAIN proposals : proposals'[id] = proposals[id]
    /\ dao_scores'[caller] = dao_scores[caller] + 10
    /\ \A other \in Address \ {caller} : dao_scores'[other] = dao_scores[other]
    /\ Len(events') = 1
    /\ events'[1].event = "proposal_created"
    /\ events'[1].proposal_id = current_proposal_id
    /\ events'[1].creator = caller
    /\ UNCHANGED <<user_votes, nft_claimed>>

\* The outcome of a refused call: nothing stored, nothing emitted.
C13_Refused ==
    /\ events' = <<>>
    /\ UNCHANGED store

C13_Step ==
    \A caller \in Address, voting_duration_blocks \in VotingDurations :
        create_proposal(caller, voting_duration_blocks)
            => IF block <= game_start_block + game_duration_blocks
               THEN C13_Created(caller, voting_duration_blocks)
               ELSE C13_Refused

\* C13: create_proposal succeeds exactly when current_block <= start_block +
\* duration_blocks and fails with GameEnded otherwise; on success the new
\* proposal has creator = caller, start_block = current_block, end_block =
\* current_block + voting_duration_blocks, zero tallies and executed = false,
\* the caller's score grows by exactly 10, one ProposalCreated event is emitted
\* and no other proposal, vote record, score or claim entry changes.
C13_CreateProposal ==
    /\ [](create_proposal_result
             = IF block <= game_start_block + game_duration_blocks
               THEN "Ok" ELSE "GameEnded")
    /\ [][C13_Step]_vars

\* A second proposal just created at a later block with a non-zero voting
\* duration, by a caller who holds other points, next to a proposal that has
\* a vote.
C13_Witness ==
    /\ Len(events) = 1
    /\ events[1].event = "proposal_created"
    /\ events[1].proposal_id = 2
    /\ proposals[2].start_block = block
    /\ block > 0
    /\ proposals[2].end_block = block + 1
    /\ dao_scores[proposals[2].creator] > 10
    /\ DOMAIN user_votes # {}

\* ---------------------------------------------------------------- C14
\* The outcome of an accepted vote(caller, proposal_id, vote_for, payment).
C14_Counted(caller, proposal_id, vote_for, payment) ==
    LET before == proposals[proposal_id]
        after == proposals'[proposal_id]
    IN  /\ DOMAIN proposals' = DOMAIN proposals
        /\ IF vote_for
           THEN /\ after.votes_for = before.votes_for + payment
                /\ after.votes_against = before.votes_against
           ELSE /\ after.votes_against = before.votes_against + payment
                /\ after.votes_for = before.votes_for
        /\ \A id \in DOMAIN proposals \ {proposal_id} :
               proposals'[id] = proposals[id]
        /\ dao_scores'[caller] = dao_scores[caller] + (payment \div UNIT) * 2
        /\ \A other \in Address \ {caller} : dao_scores'[other] = dao_scores[other]

\* An accepted vote stores a Vote record under a new key <<proposal, voter>>:
\* the step is held against every side and stake it can be a vote of.
C14_Step ==
    \A k \in NewVoteKeys, vote_for \in BOOLEAN, payment \in StakePayments :
        (/\ payment >= UNIT
         /\ vote_result(k[2], k[1], payment) = "Ok"
         /\ vote(k[2], k[1], vote_for, payment))
            => C14_Counted(k[2], k[1], vote_for, payment)

\* C14: an accepted vote with stake s >= UNIT adds s to exactly the chosen
\* side's tally of that proposal, leaves the other side and every other
\* proposal unchanged, and adds exactly floor(s / UNIT) * 2 to the voter's
\* score and nothing to any other score.
C14_VoteCounts == [][C14_Step]_vars

\* A vote for=true with stake 2*UNIT just accepted on the second of two
\* proposals: it added 2*UNIT to votes_for and 4 to the voter's score.
C14_Witness ==
    /\ events = <<vote_cast_event(2, "bob", TRUE, 2 * UNIT)>>
    /\ proposals[2].votes_for = 2 * UNIT
    /\ proposals[2].votes_against = 0
    /\ proposals[2].creator = "alice"
    /\ proposals[1].creator = "alice"
    /\ dao_scores["bob"] = 4

\* ---------------------------------------------------------------- C15
\* After the game, the answer to a claim depends on the claimed set and the
\* score alone; NotEligible is no answer in any state.
C15_Answer ==
    \A caller \in Address :
        /\ claim_nft_reward_result(caller) # "NotEligible"
        /\ block > game_start_block + game_duration_blocks
            => claim_nft_reward_result(caller)
                   = IF caller \in nft_claimed THEN "AlreadyClaimed"
                     ELSE IF dao_scores[caller] = 0 THEN "NoScore"
                     ELSE "Ok"

C15_Step ==
    \A caller \in Address :
        (/\ block > game_start_block + game_duration_blocks
         /\ dao_scores[caller] > 0
         /\ caller \notin nft_claimed
         /\ claim_nft_reward(caller))
            => /\ nft_claimed' = nft_claimed \cup {caller}
               /\ Len(events') = 1
               /\ events'[1].event = "nft_claimed"
               /\ events'[1].player = caller
               /\ events'[1].score = dao_scores[caller]
               /\ UNCHANGED <<dao_scores, proposals, user_votes,
                              current_proposal_id>>

C16_Lost ==
    {id \in DOMAIN proposals :
        /\ ~proposals[id].executed
        /\ block > proposals[id].end_block
        /\ proposals[id].votes_for <= proposals[id].votes_against}

C16_Step ==
    \A id \in C16_Lost :
        /\ id \in C16_Lost'
        /\ execute_proposal(id)
            => /\ events' = <<[event |-> "proposal_executed",
                               proposal_id |-> id, passed |-> FALSE]>>
               /\ UNCHANGED <<block, store>>

\* C16: execute_proposal on an unexecuted proposal with current_block >
\* end_block and votes_for <= votes_against does not fail: it emits
\* ProposalExecuted(passed = false) and leaves the whole store unchanged,
\* executed flag included; the proposal stays in that condition after every
\* step, so the call can be repeated any number of times and never answers
\* AlreadyExecuted.
C16_LostStaysOpen ==
    /\ [](\A id \in C16_Lost : execute_proposal_result(id) = "Ok")
    /\ [][C16_Step]_vars

\* A proposal with more stake against than for, just executed with
\* passed = false: not marked executed, its creator without the bonus, and
\* executable again.
C16_Witness ==
    \E id \in C16_Lost :
        /\ events = <<proposal_executed_event(id, FALSE)>>
        /\ proposals[id].votes_against > proposals[id].votes_for
        /\ proposals[id].votes_for > 0
        /\ dao_scores[proposals[id].creator] < EXECUTE_POINTS
        /\ execute_proposal_result(id) = "Ok"

\* ---------------------------------------------------------------- C17
\* The last transaction emitted an event of this kind for this proposal.
C17_Emitted(kind, id) ==
    /\ Len(events) = 1
    /\ events[1].event = kind
    /\ events[1].proposal_id = id

C17_EmittedFailed(id) ==
    C17_Emitted("proposal_executed", id) /\ ~events[1].passed

C17_EmittedPassed(id) ==
    C17_Emitted("proposal_executed", id) /\ events[1].passed

\* The block height never decreases, a voting window never moves, and once
\* the height is past end_block no step changes the proposal's tallies.
C17_Step ==
    /\ block' >= block
    /\ \A id \in DOMAIN proposals :
           /\ id \in DOMAIN proposals'
           /\ proposals'[id].end_block = proposals[id].end_block
           /\ block > proposals[id].end_block
               => /\ proposals'[id].votes_for = proposals[id].votes_for
                  /\ proposals'[id].votes_against = proposals[id].votes_against

\* C17: with a block height that never decreases, a proposal's voting is
\* closed for good: from the first state with current_block > end_block on,
\* its votes_for and votes_against never change; no VoteCast event for a
\* proposal follows a ProposalExecuted event for it; and once execute_proposal
\* has emitted passed = false for it, no later execution emits passed = true
\* and its executed flag stays false.
C17_VotingClosedForGood ==
    /\ [][C17_Step]_vars
    /\ \A id \in 1..MaxProposals :
           /\ [](C17_Emitted("proposal_executed", id)
                   => []~C17_Emitted("vote_cast", id))
           /\ [](C17_EmittedFailed(id)
                   => [](/\ id \in DOMAIN proposals
                         /\ ~proposals[id].executed
                         /\ ~C17_EmittedPassed(id)))

\* A proposal just executed with passed = true while the game is still on: a
\* player who has not voted on it tries to and is refused with VotingEnded.
C17_Witness ==
    \E id \in DOMAIN proposals, caller \in Address :
        /\ C17_EmittedPassed(id)
        /\ proposals[id].executed
        /\ <<id, caller>> \notin DOMAIN user_votes
        /\ vote_result(caller, id, MaxStake) = "VotingEnded"

\* ---------------------------------------------------------------- C18
C18_CreatedBy(player) ==
    {id \in DOMAIN proposals : proposals[id].creator = player}

C18_ExecutedOf(player) ==
    {id \in C18_CreatedBy(player) : proposals[id].executed}

C18_VotesBy(player) ==
    {k \in DOMAIN user_votes : user_votes[k].voter = player}

\* The score delta of each stored vote: twice the whole units of its stake.
C18_VoteDelta ==
    [k \in DOMAIN user_votes |-> (user_votes[k].stake_amount \div UNIT) * 2]

\* C18: every score is accounted for by the store: the score of an address is
\* 10 times the number of proposals it created, plus 50 times the number of
\* those that are executed, plus the sum over its Vote records of the score
\* delta of the record's stake; and every executed proposal has votes_for >
\* votes_against.
C18_ScoreAccounted ==
    /\ \A player \in Address :
           dao_scores[player]
               = 10 * Cardinality(C18_CreatedBy(player))
                 + 50 * Cardinality(C18_ExecutedOf(player))
                 + SumOver(C18_VotesBy(player), C18_VoteDelta)
    /\ \A id \in DOMAIN proposals :
           proposals[id].executed
               => proposals[id].votes_for > proposals[id].votes_against

\* A player with all three kinds of points: a proposal created, executed,
\* and a vote of at least one unit.
C18_Witness ==
    \E player \in Address :
        /\ C18_ExecutedOf(player) # {}
        /\ \E k \in C18_VotesBy(player) : C18_VoteDelta[k] > 0
        /\ dao_scores[player] = CREATE_POINTS + EXECUTE_POINTS + 2

\* ---------------------------------------------------------------- C19
C19_GameOver == block > game_start_block + game_duration_blocks

\* After the game every create and every vote is refused with GameEnded,
\* while execute_proposal is still accepted for every unexecuted proposal
\* whose voting is over.
C19_Answers ==
    C19_GameOver =>
        /\ create_proposal_result = "GameEnded"
        /\ \A caller \in Address, proposal_id \in 0..(MaxProposals + 1),
              payment \in Payments :
               vote_result(caller, proposal_id, payment) = "GameEnded"
        /\ \A id \in DOMAIN proposals :
               (~proposals[id].executed /\ block > proposals[id].end_block)
                   => execute_proposal_result(id) = "Ok"

\* A step that is a passing execution of proposal id and nothing else.
C19_PassingExecution(id) ==
    /\ ~proposals[id].executed
    /\ proposals[id].votes_for > proposals[id].votes_against
    /\ proposals'[id].executed
    /\ events' = <<[event |-> "proposal_executed", proposal_id |-> id,
                    passed |-> TRUE]>>
    /\ dao_scores' = [dao_scores EXCEPT ![proposals[id].creator] = @ + 50]

C19_Step ==
    C19_GameOver =>
        /\ UNCHANGED <<current_proposal_id, user_votes>>
        /\ DOMAIN proposals' = DOMAIN proposals
        /\ \A id \in DOMAIN proposals :
               /\ proposals'[id].votes_for = proposals[id].votes_for
               /\ proposals'[id].votes_against = proposals[id].votes_against
        /\ dao_scores' # dao_scores
            => \E id \in DOMAIN proposals : C19_PassingExecution(id)

\* C19: execute_proposal is not gated by the game phase. Once current_block >
\* start_block + duration_blocks, the proposal counter, the set of proposals,
\* their tallies and the vote records are frozen (create_proposal and vote
\* always fail with GameEnded), and the only step that still changes a score
\* is a passing execute_proposal, which adds 50 to the creator, whether or
\* not the creator has already claimed.
C19_AfterTheGame == []C19_Answers /\ [][C19_Step]_vars

\* After the game, a creator who has already claimed has just received the
\* bonus of a passing execution: the stored score is 50 above the score the
\* claim reported.
C19_Witness ==
    \E id \in DOMAIN proposals :
        /\ C19_GameOver
        /\ events = <<proposal_executed_event(id, TRUE)>>
        /\ proposals[id].creator \in nft_claimed
        /\ dao_scores[proposals[id].creator] >= CREATE_POINTS + EXECUTE_POINTS

\* ---------------------------------------------------------------- C20
\* C20: a proposal's window opens at the block of its creation and the block
\* height never decreases, so in every reachable state every existing
\* proposal has start_block <= current_block and start_block <= end_block,
\* and no vote, whoever casts it on whatever proposal id with whatever stake,
\* is answered VotingNotStarted.
C20_WindowAlreadyOpen ==
    /\ \A id \in DOMAIN proposals :
           /\ proposals[id].start_block <= block
           /\ proposals[id].start_block <= proposals[id].end_block
    /\ \A caller \in Address, proposal_id \in 0..(MaxProposals + 1),
          payment \in Payments :
           vote_result(caller, proposal_id, payment) # "VotingNotStarted"

\* Two proposals created at different blocks, the later one at the current
\* block: a staked vote on it reaches the window checks and is accepted.
C20_Witness ==
    \E early \in DOMAIN proposals, late \in DOMAIN proposals,
       caller \in Address :
        /\ proposals[early].start_block < proposals[late].start_block
        /\ proposals[late].start_block = block
        /\ vote_result(caller, late, 1) = "Ok"
====
